---------------------------- MODULE Spec2Model ----------------------------
(***************************************************************************)
(* xk6-dashboard: the k6 output extension that drains buffered samples,    *)
(* splits them into batches, hands every batch to a worker goroutine and   *)
(* applies every sample to a fixed catalog of Prometheus instruments.      *)
(*                                                                         *)
(*   SpecAdapter  the PrometheusAdapter alone: HandleSample applied to a   *)
(*                sequence of samples by one caller, and the scrape.       *)
(*   SpecSplit    the window loop of flushMetrics with the real batch      *)
(*                size, on drained slices given by their length.           *)
(*   Spec         the Output: Start, the periodic flusher, the dispatch    *)
(*                loop, the workers and Stop, interleaved.                 *)
(***************************************************************************)
EXTENDS Integers, Sequences, FiniteSets

VARIABLES
    adapter,        \* PrometheusAdapter: instrument values, warnings logged, panic
    applied,        \* SpecAdapter: the samples passed to HandleSample so far, in order
    focus,          \* SpecAdapter: the metric name the samples of this run revolve around
    exposition,     \* SpecAdapter: the last scrape response (instrument name -> value)
    stream,         \* Spec: where in PipeKinds the producer's sequence of samples starts
    start,          \* Start: "none" (not called), "ok" or "error" (what it returned)
    listener,       \* the TCP listener is bound
    serving,        \* the goroutine running http.Serve exists
    dispatching,    \* the goroutine running MetricWorker exists
    flusher,        \* o.flusher: "nil", "running", "stopping" (stop closed), "stopped"
    final,          \* the flush in progress is the one the flusher runs on stop
    buffer,         \* output.SampleBuffer: the containers added and not yet drained
    produced,       \* how many containers the producer has added so far
    flushPc,        \* flushMetrics: "idle" or "loop" (inside the window loop)
    bufferSamples,  \* flushMetrics: the drained slice
    bufferSize,     \* flushMetrics: len(bufferSamples)
    lower,          \* flushMetrics: lower
    upper,          \* flushMetrics: upper
    windows,        \* flushMetrics: the windows <<lower, upper>> pushed so far
    sampleChannel,  \* o.sampleChannel: the batches buffered in the channel
    closed,         \* o.sampleChannel is closed
    workers,        \* the worker goroutines spawned so far, by spawn order
    nilSpawned,     \* workers spawned for a receive from the closed, empty channel
    wg,             \* o.wg: the wait group's counter
    workGroupCount, \* o.workGroupCount
    stop,           \* Stop: where the call is ("idle" before it, "returned" after it)
    handled         \* per sample id, how many times a worker passed it to HandleSample

adapterVars == <<applied, focus, exposition>>
startVars == <<start, listener, serving, dispatching>>
flushVars == <<flushPc, bufferSamples, bufferSize, lower, upper, windows>>
outputVars ==
    <<stream, startVars, flusher, final, buffer, produced, flushVars, sampleChannel, closed,
      workers, nilSpawned, wg, workGroupCount, stop, handled>>

vars == <<adapter, adapterVars, outputVars>>

(***************************************************************************)
(* Bounds of the model.                                                    *)
(***************************************************************************)
\* SpecAdapter: the longest sequence of samples applied in one run.
MaxApplied == 2

\* SpecSplit: the drained lengths are those within one of k * 2500, k <= MaxSplitK.
MaxSplitK == 12

\* Spec: the containers the producer adds in one run.
MaxSamples == 3

\* Spec: the batch size and the channel capacity, scaled down from 10000 and 10.
PipeBatchSize == 2

PipeChanCap == 1

\* Spec: the workers the dispatch loop spawns from the closed, empty channel.
MaxNilWorkers == 1

(***************************************************************************)
(* Program constants.                                                      *)
(***************************************************************************)
\* flushMetrics: batchSize := 10000.
batchSize == 10000

\* The flush period, in seconds, when the options give none.
defaultPeriod == 10

(***************************************************************************)
(* The metric catalog (internal package, NewPrometheusAdapter).            *)
(***************************************************************************)
CounterNames ==
    {"data_received", "data_sent", "http_reqs", "iterations", "dropped_iterations"}

TrendNames ==
    {"http_req_blocked", "http_req_connecting", "http_req_duration",
     "http_req_receiving", "http_req_sending", "http_req_tls_handshaking",
     "http_req_waiting", "iteration_duration"}

RateNames == {"checks", "http_req_failed"}

\* The "<name>_current" gauge that the builtinMetrics struct pairs with a Trend name.
CurrentOf(name) ==
    CASE name = "http_req_blocked"         -> "http_req_blocked_current"
      [] name = "http_req_connecting"      -> "http_req_connecting_current"
      [] name = "http_req_duration"        -> "http_req_duration_current"
      [] name = "http_req_receiving"       -> "http_req_receiving_current"
      [] name = "http_req_sending"         -> "http_req_sending_current"
      [] name = "http_req_tls_handshaking" -> "http_req_tls_handshaking_current"
      [] name = "http_req_waiting"         -> "http_req_waiting_current"
      [] name = "iteration_duration"       -> "iteration_duration_current"

\* The gauges NewPrometheusAdapter constructs (HTTPReqFailedCurrent is declared in
\* the struct and never constructed).
GaugeNames == {"vus", "vus_max"} \cup {CurrentOf(t) : t \in TrendNames}

\* The histograms NewPrometheusAdapter constructs.
HistogramNames == TrendNames \cup RateNames

\* The collectors NewPrometheusAdapter passes to registry.Register.
Registered ==
    {"vus", "vus_max",
     "http_req_blocked_current", "http_req_connecting_current",
     "http_req_duration_current", "http_req_receiving_current",
     "http_req_sending_current", "http_req_tls_handshaking_current",
     "http_req_waiting_current", "iteration_duration_current",
     "data_received", "data_sent", "http_reqs", "iterations", "dropped_iterations",
     "http_req_blocked", "http_req_connecting", "http_req_receiving",
     "http_req_sending", "http_req_tls_handshaking", "http_req_waiting",
     "http_req_duration", "checks", "http_req_failed"}

\* The state right after NewPrometheusAdapter: every instrument at zero.
NewPrometheusAdapter ==
    [counter   |-> [n \in CounterNames |-> 0],
     gauge     |-> [n \in GaugeNames |-> 0],
     histogram |-> [n \in HistogramNames |-> [count |-> 0, sum |-> 0]],
     warnings  |-> 0,
     panicked  |-> FALSE]

(***************************************************************************)
(* Samples.  metrics.MetricType is an integer enum: Counter, Gauge, Trend, *)
(* Rate; "Invalid" stands for any other tag value.  Values are float64 in  *)
(* the code and small integers here.                                       *)
(***************************************************************************)
MetricTypes == {"Counter", "Gauge", "Rate", "Trend", "Invalid"}

\* A metric name outside the catalog (a custom metric of the test script).
CustomName == "my_metric"

Values == {-1, 1, 2}

(***************************************************************************)
(* The instrument operations of the Prometheus client that the handlers    *)
(* call.  Counter.Add panics on a negative argument.                       *)
(***************************************************************************)
\* Counter.Add without its check of the sign of the argument.
CounterAddSigned(a, name, v) == [a EXCEPT !.counter[name] = @ + v]

\* Counter.Add as a plain store of the argument, losing what was accumulated.
CounterAddStale(a, name, v) ==
    IF v < 0
    THEN [a EXCEPT !.panicked = TRUE]
    ELSE [a EXCEPT !.counter[name] = v]

CounterAdd(a, name, v) ==
    IF v < 0
    THEN [a EXCEPT !.panicked = TRUE]
    ELSE [a EXCEPT !.counter[name] = @ + v]

GaugeSet(a, name, v) == [a EXCEPT !.gauge[name] = v]

HistogramObserve(a, name, v) ==
    [a EXCEPT !.histogram[name] = [count |-> @.count + 1, sum |-> @.sum + v]]

(***************************************************************************)
(* The four typed handlers and HandleSample.                               *)
(***************************************************************************)
\* The case labels of each handler's switch on sample.Metric.Name.
CounterCases == {"data_received", "data_sent", "http_reqs", "iterations"}

GaugeCases ==
    {"vus", "vus_max",
     "http_req_blocked_current", "http_req_connecting_current",
     "http_req_duration_current", "http_req_receiving_current",
     "http_req_sending_current", "http_req_tls_handshaking_current",
     "http_req_waiting_current", "iteration_duration_current"}

RateCases == {"checks", "http_req_failed"}

TrendCases ==
    {"http_req_blocked", "http_req_connecting", "http_req_duration",
     "http_req_receiving", "http_req_sending", "http_req_tls_handshaking",
     "http_req_waiting", "iteration_duration"}

handleCounter(a, sample) ==
    CASE sample.name = "data_received" -> CounterAdd(a, "data_received", sample.value)
      [] sample.name = "data_sent"     -> CounterAdd(a, "data_sent", sample.value)
      [] sample.name = "http_reqs"     -> CounterAdd(a, "http_reqs", sample.value)
      [] sample.name = "iterations"    -> CounterAdd(a, "iterations", sample.value)
      [] OTHER -> a

\* Mutant: the gauge accumulates instead of being overwritten.
handleGaugeAdd(a, sample) ==
    IF sample.name \in GaugeCases
    THEN [a EXCEPT !.gauge[sample.name] = @ + sample.value]
    ELSE a

handleGauge(a, sample) ==
    CASE sample.name = "vus"     -> GaugeSet(a, "vus", sample.value)
      [] sample.name = "vus_max" -> GaugeSet(a, "vus_max", sample.value)
      [] sample.name = "http_req_blocked_current" ->
            GaugeSet(a, "http_req_blocked_current", sample.value)
      [] sample.name = "http_req_connecting_current" ->
            GaugeSet(a, "http_req_connecting_current", sample.value)
      [] sample.name = "http_req_duration_current" ->
            GaugeSet(a, "http_req_duration_current", sample.value)
      [] sample.name = "http_req_receiving_current" ->
            GaugeSet(a, "http_req_receiving_current", sample.value)
      [] sample.name = "http_req_sending_current" ->
            GaugeSet(a, "http_req_sending_current", sample.value)
      [] sample.name = "http_req_tls_handshaking_current" ->
            GaugeSet(a, "http_req_tls_handshaking_current", sample.value)
      [] sample.name = "http_req_waiting_current" ->
            GaugeSet(a, "http_req_waiting_current", sample.value)
      [] sample.name = "iteration_duration_current" ->
            GaugeSet(a, "iteration_duration_current", sample.value)
      [] OTHER -> a

\* Mutant: a Rate sample is also counted as a request.
handleRateCounted(a, sample) ==
    CASE sample.name = "checks" ->
            CounterAdd(HistogramObserve(a, "checks", sample.value), "http_reqs", 1)
      [] sample.name = "http_req_failed" ->
            CounterAdd(HistogramObserve(a, "http_req_failed", sample.value), "http_reqs", 1)
      [] OTHER -> a

handleRate(a, sample) ==
    CASE sample.name = "checks" -> HistogramObserve(a, "checks", sample.value)
      [] sample.name = "http_req_failed" ->
            HistogramObserve(a, "http_req_failed", sample.value)
      [] OTHER -> a

\* Mutant: the companion gauge is set and the histogram is left alone.
handleTrendSetOnly(a, sample) ==
    IF sample.name \in TrendCases
    THEN GaugeSet(a, CurrentOf(sample.name), sample.value)
    ELSE a

handleTrend(a, sample) ==
    CASE sample.name = "http_req_blocked" ->
            HistogramObserve(GaugeSet(a, "http_req_blocked_current", sample.value),
                             "http_req_blocked", sample.value)
      [] sample.name = "http_req_connecting" ->
            HistogramObserve(GaugeSet(a, "http_req_connecting_current", sample.value),
                             "http_req_connecting", sample.value)
      [] sample.name = "http_req_duration" ->
            HistogramObserve(GaugeSet(a, "http_req_duration_current", sample.value),
                             "http_req_duration", sample.value)
      [] sample.name = "http_req_receiving" ->
            HistogramObserve(GaugeSet(a, "http_req_receiving_current", sample.value),
                             "http_req_receiving", sample.value)
      [] sample.name = "http_req_sending" ->
            HistogramObserve(GaugeSet(a, "http_req_sending_current", sample.value),
                             "http_req_sending", sample.value)
      [] sample.name = "http_req_tls_handshaking" ->
            HistogramObserve(GaugeSet(a, "http_req_tls_handshaking_current", sample.value),
                             "http_req_tls_handshaking", sample.value)
      [] sample.name = "http_req_waiting" ->
            HistogramObserve(GaugeSet(a, "http_req_waiting_current", sample.value),
                             "http_req_waiting", sample.value)
      [] sample.name = "iteration_duration" ->
            HistogramObserve(GaugeSet(a, "iteration_duration_current", sample.value),
                             "iteration_duration", sample.value)
      [] OTHER -> a

\* Mutant: the unknown type is dropped without a log event.
WarnNothing(a) == a

\* The default branch of HandleSample's type switch: a.logger.Warnf.
WarnUnknownType(a) == [a EXCEPT !.warnings = @ + 1]

\* Mutant: the default branch logs and falls through to a handler.
HandleSampleNoReturn(a, sample) ==
    CASE sample.type = "Counter" -> handleCounter(a, sample)
      [] sample.type = "Gauge"   -> handleGauge(a, sample)
      [] sample.type = "Rate"    -> handleRate(a, sample)
      [] OTHER -> handleTrend(IF sample.type = "Trend" THEN a ELSE WarnUnknownType(a),
                              sample)

HandleSample(a, sample) ==
    CASE sample.type = "Counter" -> handleCounter(a, sample)
      [] sample.type = "Gauge"   -> handleGauge(a, sample)
      [] sample.type = "Rate"    -> handleRate(a, sample)
      [] sample.type = "Trend"   -> handleTrend(a, sample)
      [] OTHER -> WarnUnknownType(a)

\* promhttp.HandlerFor(a.registry): the response covers the registered collectors.
Gather(a) ==
    [n \in Registered |->
        IF n \in CounterNames THEN a.counter[n]
        ELSE IF n \in GaugeNames THEN a.gauge[n]
        ELSE a.histogram[n]]

(***************************************************************************)
(* SpecAdapter: one caller applies samples one after the other.            *)
(***************************************************************************)
\* The names a run draws its samples from: the focus and, for a Trend name, its
\* "_current" gauge.
NameGroup(f) == IF f \in TrendNames THEN {f, CurrentOf(f)} ELSE {f}

FocusNames == CounterNames \cup {"vus", "vus_max"} \cup HistogramNames \cup {CustomName}

SamplesOf(f) == [type : MetricTypes, name : NameGroup(f), value : Values]

\* Spec: the samples the producer adds, which it cycles through from the one at
\* index stream on: counted requests and request durations (two of each, so that
\* different batches update the same instrument), a sample with a type tag outside
\* the enum, and a negative count.
PipeKinds ==
    <<[type |-> "Counter", name |-> "http_reqs", value |-> 1],
      [type |-> "Trend", name |-> "http_req_duration", value |-> 2],
      [type |-> "Counter", name |-> "http_reqs", value |-> 2],
      [type |-> "Trend", name |-> "http_req_duration", value |-> 1],
      [type |-> "Invalid", name |-> "http_reqs", value |-> 1],
      [type |-> "Counter", name |-> "http_reqs", value |-> -1]>>

\* The sample the producer adds as its id-th one.
KindOf(id) == PipeKinds[((stream + id - 2) % Len(PipeKinds)) + 1]

\* The Output right after New: nothing started, channel and buffer empty.
New ==
    /\ stream \in DOMAIN PipeKinds
    /\ start = "none"
    /\ listener = FALSE
    /\ serving = FALSE
    /\ dispatching = FALSE
    /\ flusher = "nil"
    /\ final = FALSE
    /\ buffer = <<>>
    /\ produced = 0
    /\ flushPc = "idle"
    /\ bufferSamples = <<>>
    /\ bufferSize = 0
    /\ lower = 0
    /\ upper = 0
    /\ windows = <<>>
    /\ sampleChannel = <<>>
    /\ closed = FALSE
    /\ workers = <<>>
    /\ nilSpawned = 0
    /\ wg = 0
    /\ workGroupCount = 0
    /\ stop = "idle"
    /\ handled = [id \in 1..MaxSamples |-> 0]

AdapterInit ==
    /\ adapter = NewPrometheusAdapter
    /\ applied = <<>>
    /\ focus \in FocusNames
    /\ exposition = <<>>
    /\ New
    /\ stream = 1

\* One call of HandleSample; a panic of the instrument ends the process.
Apply ==
    /\ ~adapter.panicked
    /\ Len(applied) < MaxApplied
    /\ \E sample \in SamplesOf(focus) :
          /\ adapter' = HandleSample(adapter, sample)
          /\ applied' = Append(applied, sample)
    /\ UNCHANGED <<focus, exposition, outputVars>>

\* One GET of the metrics path.
Scrape ==
    /\ ~adapter.panicked
    /\ exposition' = Gather(adapter)
    /\ UNCHANGED <<adapter, applied, focus, outputVars>>

AdapterNext == Apply \/ Scrape

SpecAdapter == AdapterInit /\ [][AdapterNext]_vars

(***************************************************************************)
(* flushMetrics: the window loop over the drained slice.                   *)
(***************************************************************************)
\* upper before the loop: the batch size, or the slice length when it is smaller.
InitialUpper(size, B) == IF B > size THEN size ELSE B

\* The loop condition: lower <= bufferSize-1.
LoopGuard(lo, size) == lo <= size - 1

\* Mutant: upper advances by the batch size and is not clamped to the length.
NextUpperUnclamped(up, size, B) == up + B

\* upper after a push: advanced by the batch size, clamped to the slice length.
NextUpper(up, size, B) == IF up + B >= size THEN size ELSE up + B

\* Mutant: the window starts one element early.
WindowFromBefore(slice, lo, up) == SubSeq(slice, IF lo = 0 THEN 1 ELSE lo, up)

\* bufferSamples[lower:upper].
Window(slice, lo, up) == SubSeq(slice, lo + 1, up)

\* GetBufferedSamples has returned n containers: the loop's variables are set.
EnterLoop(n, B) ==
    /\ flushPc' = "loop"
    /\ bufferSize' = n
    /\ lower' = 0
    /\ upper' = InitialUpper(n, B)
    /\ windows' = <<>>

\* One iteration of the loop: the window is pushed, lower and upper move on.
PushWindow(B) ==
    /\ LoopGuard(lower, bufferSize)
    /\ windows' = Append(windows, <<lower, upper>>)
    /\ lower' = upper
    /\ upper' = NextUpper(upper, bufferSize, B)
    /\ UNCHANGED <<flushPc, bufferSize>>

\* flushMetrics returns: its local variables are gone.
LeaveLoop ==
    /\ flushPc' = "idle"
    /\ bufferSize' = 0
    /\ lower' = 0
    /\ upper' = 0
    /\ windows' = <<>>

(***************************************************************************)
(* SpecSplit: the loop alone, with the program's batch size, on slices     *)
(* given by their length; a window stands for the batch it slices.         *)
(***************************************************************************)
SplitSizes == {n \in {k * 2500 + d : k \in 0..MaxSplitK, d \in {-1, 0, 1}} : n >= 0}

splitFrame ==
    <<adapter, adapterVars, stream, startVars, flusher, final, buffer, produced, bufferSamples,
      sampleChannel, closed, workers, nilSpawned, wg, workGroupCount, stop, handled>>

SplitInit ==
    /\ adapter = NewPrometheusAdapter
    /\ applied = <<>>
    /\ focus = CustomName
    /\ exposition = <<>>
    /\ New
    /\ stream = 1

SplitDrain ==
    /\ flushPc = "idle"
    /\ \E n \in SplitSizes : EnterLoop(n, batchSize)
    /\ UNCHANGED splitFrame

SplitPush ==
    /\ flushPc = "loop"
    /\ PushWindow(batchSize)
    /\ UNCHANGED splitFrame

SplitEnd ==
    /\ flushPc = "loop"
    /\ ~LoopGuard(lower, bufferSize)
    /\ LeaveLoop
    /\ UNCHANGED splitFrame

SplitNext == SplitDrain \/ SplitPush \/ SplitEnd

SpecSplit == SplitInit /\ [][SplitNext]_vars

(***************************************************************************)
(* Spec: the Output.  The host calls Start and later Stop; the producer    *)
(* adds containers; the flusher goroutine of output.PeriodicFlusher runs   *)
(* flushMetrics on every tick and once more on stop; MetricWorker receives *)
(* batches and spawns a worker goroutine per batch.  A container holds one *)
(* sample.                                                                 *)
(***************************************************************************)
\* A panic in any goroutine ends the process.
Crashed == adapter.panicked \/ stop = "panicked" \/ flushPc = "panicked"

\* What Start meets: the option string parses, the address can be bound, the UI
\* URL parses, and the flush period read from the options.
StartInputs ==
    [parse : BOOLEAN, listen : BOOLEAN, handler : BOOLEAN, Period : {0, defaultPeriod}]

Start ==
    /\ start = "none"
    /\ \E opts \in StartInputs :
          LET bound == opts.parse /\ opts.listen
              handlerOk == bound /\ opts.handler
              flusherOk == handlerOk /\ opts.Period > 0
          IN  /\ listener' = bound
              /\ serving' = handlerOk
              /\ dispatching' = handlerOk
              /\ flusher' = IF flusherOk THEN "running" ELSE "nil"
              /\ start' = IF flusherOk THEN "ok" ELSE "error"
    /\ UNCHANGED <<adapter, adapterVars, stream, final, buffer, produced, flushVars,
                   sampleChannel, closed, workers, nilSpawned, wg, workGroupCount,
                   stop, handled>>

\* SampleBuffer.AddMetricSamples, called by the producer while the test runs.
AddMetricSamples ==
    /\ start = "ok"
    /\ stop = "idle"
    /\ ~Crashed
    /\ produced < MaxSamples
    /\ LET kind == KindOf(produced + 1)
       IN  buffer' = Append(buffer, [id |-> produced + 1, type |-> kind.type,
                                     name |-> kind.name, value |-> kind.value])
    /\ produced' = produced + 1
    /\ UNCHANGED <<adapter, adapterVars, stream, startVars, flusher, final, flushVars,
                   sampleChannel, closed, workers, nilSpawned, wg, workGroupCount,
                   stop, handled>>

\* The first statement of flushMetrics: GetBufferedSamples drains the buffer.
GetBufferedSamples ==
    /\ bufferSamples' = buffer
    /\ buffer' = <<>>
    /\ EnterLoop(Len(buffer), PipeBatchSize)

\* The flusher's ticker fires: flushMetrics starts.
FlushTick ==
    /\ flusher \in {"running", "stopping"}
    /\ flushPc = "idle"
    /\ ~Crashed
    /\ GetBufferedSamples
    /\ final' = FALSE
    /\ UNCHANGED <<adapter, adapterVars, stream, startVars, flusher, produced, sampleChannel,
                   closed, workers, nilSpawned, wg, workGroupCount, stop, handled>>

\* The flusher sees its stop channel closed: flushMetrics starts a last time.
FlushOnStop ==
    /\ flusher = "stopping"
    /\ flushPc = "idle"
    /\ ~Crashed
    /\ GetBufferedSamples
    /\ final' = TRUE
    /\ UNCHANGED <<adapter, adapterVars, stream, startVars, flusher, produced, sampleChannel,
                   closed, workers, nilSpawned, wg, workGroupCount, stop, handled>>

\* The send as a select with a default branch: a window that finds the channel
\* full is dropped.
FlushPushDrop ==
    /\ flushPc = "loop"
    /\ ~Crashed
    /\ LoopGuard(lower, bufferSize)
    /\ IF closed
       THEN /\ flushPc' = "panicked"
            /\ UNCHANGED <<bufferSize, lower, upper, windows, sampleChannel>>
       ELSE /\ sampleChannel' =
                  IF Len(sampleChannel) < PipeChanCap
                  THEN Append(sampleChannel, Window(bufferSamples, lower, upper))
                  ELSE sampleChannel
            /\ PushWindow(PipeBatchSize)
    /\ UNCHANGED <<adapter, adapterVars, stream, startVars, flusher, final, buffer, produced,
                   bufferSamples, closed, workers, nilSpawned, wg, workGroupCount,
                   stop, handled>>

\* o.sampleChannel <- samplesGroup: blocks while the channel is full, panics on a
\* closed channel.
FlushPush ==
    /\ flushPc = "loop"
    /\ ~Crashed
    /\ LoopGuard(lower, bufferSize)
    /\ IF closed
       THEN /\ flushPc' = "panicked"
            /\ UNCHANGED <<bufferSize, lower, upper, windows, sampleChannel>>
       ELSE /\ Len(sampleChannel) < PipeChanCap
            /\ sampleChannel' = Append(sampleChannel, Window(bufferSamples, lower, upper))
            /\ PushWindow(PipeBatchSize)
    /\ UNCHANGED <<adapter, adapterVars, stream, startVars, flusher, final, buffer, produced,
                   bufferSamples, closed, workers, nilSpawned, wg, workGroupCount,
                   stop, handled>>

\* The loop is over: flushMetrics logs workGroupCount and returns; after the flush
\* on stop the flusher goroutine closes its stopped channel and ends.
FlushEnd ==
    /\ flushPc = "loop"
    /\ ~Crashed
    /\ ~LoopGuard(lower, bufferSize)
    /\ LeaveLoop
    /\ bufferSamples' = <<>>
    /\ flusher' = IF final THEN "stopped" ELSE flusher
    /\ final' = FALSE
    /\ UNCHANGED <<adapter, adapterVars, stream, startVars, buffer, produced, sampleChannel,
                   closed, workers, nilSpawned, wg, workGroupCount, stop, handled>>

\* The goroutine MetricWorker spawns for a received batch, before its first statement.
NewWorker(sampleGroup) == [pc |-> "add", batch |-> sampleGroup, next |-> 1]

\* MetricWorker: a batch is received from the channel and a worker is spawned.
DispatchBatch ==
    /\ dispatching
    /\ ~Crashed
    /\ sampleChannel # <<>>
    /\ sampleChannel' = Tail(sampleChannel)
    /\ workers' = Append(workers, NewWorker(Head(sampleChannel)))
    /\ UNCHANGED <<adapter, adapterVars, stream, startVars, flusher, final, buffer, produced,
                   flushVars, closed, nilSpawned, wg, workGroupCount, stop, handled>>

\* MetricWorker: the receive from the closed, empty channel yields a nil batch at
\* once, and a worker is spawned for it.
DispatchClosed ==
    /\ dispatching
    /\ ~Crashed
    /\ sampleChannel = <<>>
    /\ closed
    /\ nilSpawned < MaxNilWorkers
    /\ nilSpawned' = nilSpawned + 1
    /\ workers' = Append(workers, NewWorker(<<>>))
    /\ UNCHANGED <<adapter, adapterVars, stream, startVars, flusher, final, buffer, produced,
                   flushVars, sampleChannel, closed, wg, workGroupCount, stop, handled>>

workerFrame ==
    <<adapterVars, stream, startVars, flusher, final, buffer, produced, flushVars,
      sampleChannel, closed, nilSpawned>>

\* The worker's o.wg.Add(1).
WorkerAdd(w) ==
    /\ workers[w].pc = "add"
    /\ ~Crashed
    /\ wg' = wg + 1
    /\ workers' = [workers EXCEPT ![w].pc = "count"]
    /\ UNCHANGED <<adapter, workGroupCount, stop, handled, workerFrame>>

\* The worker's atomic.AddInt64(&o.workGroupCount, 1).
WorkerCount(w) ==
    /\ workers[w].pc = "count"
    /\ ~Crashed
    /\ workGroupCount' = workGroupCount + 1
    /\ workers' = [workers EXCEPT ![w].pc = "range"]
    /\ UNCHANGED <<adapter, wg, stop, handled, workerFrame>>

\* The range loops walking the batch from its end.
WorkerHandleBackwards(w) ==
    /\ workers[w].pc = "range"
    /\ ~Crashed
    /\ workers[w].next <= Len(workers[w].batch)
    /\ LET sample == workers[w].batch[Len(workers[w].batch) + 1 - workers[w].next]
       IN  /\ adapter' = HandleSample(adapter, sample)
           /\ handled' = [handled EXCEPT ![sample.id] = @ + 1]
    /\ workers' = [workers EXCEPT ![w].next = @ + 1]
    /\ UNCHANGED <<wg, workGroupCount, stop, workerFrame>>

\* One iteration of the worker's range loops: o.HandleSample on the next sample.
WorkerHandle(w) ==
    /\ workers[w].pc = "range"
    /\ ~Crashed
    /\ workers[w].next <= Len(workers[w].batch)
    /\ LET sample == workers[w].batch[workers[w].next]
       IN  /\ adapter' = HandleSample(adapter, sample)
           /\ handled' = [handled EXCEPT ![sample.id] = @ + 1]
    /\ workers' = [workers EXCEPT ![w].next = @ + 1]
    /\ UNCHANGED <<wg, workGroupCount, stop, workerFrame>>

\* The worker ending its loop without the deferred decrement of workGroupCount.
WorkerUncountSkipped(w) ==
    /\ workers[w].pc = "range"
    /\ ~Crashed
    /\ workers[w].next > Len(workers[w].batch)
    /\ workers' = [workers EXCEPT ![w].pc = "done"]
    /\ UNCHANGED <<adapter, wg, workGroupCount, stop, handled, workerFrame>>

\* The worker's deferred atomic.AddInt64(&o.workGroupCount, -1).
WorkerUncount(w) ==
    /\ workers[w].pc = "range"
    /\ ~Crashed
    /\ workers[w].next > Len(workers[w].batch)
    /\ workGroupCount' = workGroupCount - 1
    /\ workers' = [workers EXCEPT ![w].pc = "done"]
    /\ UNCHANGED <<adapter, wg, stop, handled, workerFrame>>

\* The worker's deferred o.wg.Done(): the counter reaching zero releases a Stop
\* that is blocked in o.wg.Wait().
WorkerDone(w) ==
    /\ workers[w].pc = "done"
    /\ ~Crashed
    /\ wg' = wg - 1
    /\ stop' = IF stop = "waiting" /\ wg = 1 THEN "woken" ELSE stop
    /\ workers' = [workers EXCEPT ![w] = [pc |-> "exited", batch |-> <<>>, next |-> 1]]
    /\ UNCHANGED <<adapter, workGroupCount, handled, workerFrame>>

stopFrame ==
    <<adapter, adapterVars, stream, startVars, final, buffer, produced, flushVars,
      sampleChannel, workers, nilSpawned, wg, workGroupCount, handled>>

\* Stop is called: o.flusher.Stop() closes the flusher's stop channel and waits.
StopCall ==
    /\ start = "ok"
    /\ stop = "idle"
    /\ ~Crashed
    /\ flusher' = "stopping"
    /\ stop' = "flusherStop"
    /\ UNCHANGED <<closed, stopFrame>>

\* Stop going on to o.wg.Wait() without o.flusher.Stop() having waited for the
\* flusher goroutine to end.
StopWaitEarly ==
    /\ stop = "flusherStop"
    /\ ~Crashed
    /\ stop' = IF wg = 0 THEN "afterWait" ELSE "waiting"
    /\ UNCHANGED <<flusher, closed, stopFrame>>

\* o.flusher.Stop() has returned; o.wg.Wait() returns at once on a zero counter and
\* blocks otherwise.
StopWait ==
    /\ stop = "flusherStop"
    /\ flusher = "stopped"
    /\ ~Crashed
    /\ stop' = IF wg = 0 THEN "afterWait" ELSE "waiting"
    /\ UNCHANGED <<flusher, closed, stopFrame>>

\* The released o.wg.Wait() resumes: it panics when the counter has been raised
\* again in the meantime ("WaitGroup is reused before previous Wait has returned"),
\* and the deferred close of the channel runs while the panic unwinds Stop.
StopWoken ==
    /\ stop = "woken"
    /\ ~Crashed
    /\ stop' = IF wg # 0 THEN "panicked" ELSE "afterWait"
    /\ closed' = (wg # 0)
    /\ UNCHANGED <<flusher, stopFrame>>

\* The rest of Stop: getopts, the optional sleep, the deferred close of the channel.
StopReturn ==
    /\ stop = "afterWait"
    /\ ~Crashed
    /\ closed' = TRUE
    /\ stop' = "returned"
    /\ UNCHANGED <<flusher, stopFrame>>

Init ==
    /\ adapter = NewPrometheusAdapter
    /\ applied = <<>>
    /\ focus = CustomName
    /\ exposition = <<>>
    /\ New

Next ==
    \/ Start
    \/ AddMetricSamples
    \/ FlushTick
    \/ FlushOnStop
    \/ FlushPush
    \/ FlushEnd
    \/ DispatchBatch
    \/ DispatchClosed
    \/ \E w \in DOMAIN workers : WorkerAdd(w)
    \/ \E w \in DOMAIN workers : WorkerCount(w)
    \/ \E w \in DOMAIN workers : WorkerHandle(w)
    \/ \E w \in DOMAIN workers : WorkerUncount(w)
    \/ \E w \in DOMAIN workers : WorkerDone(w)
    \/ StopCall
    \/ StopWait
    \/ StopWoken
    \/ StopReturn

Spec == Init /\ [][Next]_vars

\* No more workers are ever spawned than there are batches and nil receives.
MaxWorkers == MaxSamples + MaxNilWorkers

\* The Output under the Go scheduler: a goroutine that can take its next step
\* eventually takes it (the flusher inside flushMetrics, the dispatch loop with a
\* batch to receive, every worker, Stop), and the flusher's select, which chooses
\* at random among its ready cases, eventually chooses the closed stop channel
\* over the ticker.  The ticker, the producer and the calls of Start and Stop are
\* under no obligation.
FairSpec ==
    /\ Spec
    /\ SF_vars(FlushOnStop)
    /\ WF_vars(FlushPush)
    /\ WF_vars(FlushEnd)
    /\ WF_vars(DispatchBatch)
    /\ \A w \in 1..MaxWorkers :
          /\ WF_vars(w \in DOMAIN workers /\ WorkerAdd(w))
          /\ WF_vars(w \in DOMAIN workers /\ WorkerCount(w))
          /\ WF_vars(w \in DOMAIN workers /\ WorkerHandle(w))
          /\ WF_vars(w \in DOMAIN workers /\ WorkerUncount(w))
          /\ WF_vars(w \in DOMAIN workers /\ WorkerDone(w))
    /\ WF_vars(StopWait)
    /\ WF_vars(StopWoken)
    /\ WF_vars(StopReturn)

(***************************************************************************)
(* Properties of the adapter (SpecAdapter).                                *)
(***************************************************************************)
Last(seq) == seq[Len(seq)]

\* The samples of seq with the given type and name, in order.
Select(seq, type, name) ==
    LET Test(s) == s.type = type /\ s.name = name
    IN  SelectSeq(seq, Test)

RECURSIVE SumValues(_)
SumValues(seq) == IF seq = <<>> THEN 0 ELSE seq[1].value + SumValues(Tail(seq))

\* The instrument values, without the log and the panic flag.
Instruments(a) == <<a.counter, a.gauge, a.histogram>>

\* HandleSample drops the sample: its type is none of the four, or the handler of
\* its type has no case for its name.
UnknownType(sample) == sample.type \notin {"Counter", "Gauge", "Rate", "Trend"}

UnknownName(sample) ==
    \/ sample.type = "Counter" /\ sample.name \notin CounterCases
    \/ sample.type = "Gauge" /\ sample.name \notin GaugeCases
    \/ sample.type = "Rate" /\ sample.name \notin RateCases
    \/ sample.type = "Trend" /\ sample.name \notin TrendCases

\* This step is a call of HandleSample (on the sample Last(applied')).
Handled == applied' # applied

\* The instruments whose value differs from the one they were constructed with.
Updated(a) ==
    {n \in CounterNames : a.counter[n] # 0}
        \cup {n \in GaugeNames : a.gauge[n] # 0}
        \cup {n \in HistogramNames : a.histogram[n].count # 0}

\* C4 (as claimed): after a sequence of samples has been applied, every counter the
\* registry constructs equals the sum of the values of the Counter-typed samples
\* that carry its name.
C4_CounterAccumulation ==
    ~adapter.panicked =>
        \A c \in CounterNames :
            adapter.counter[c] = SumValues(Select(applied, "Counter", c))

\* C5: for every Trend name t, with no Gauge-typed sample written straight to the
\* companion gauge, the histogram of t has one observation per Trend-typed sample
\* named t (and their sum), and once there is such a sample the companion gauge
\* holds the value of the last of them: both instruments move together.
C5_TrendDualUpdate ==
    \A t \in TrendNames :
        LET ts == Select(applied, "Trend", t)
        IN  Select(applied, "Gauge", CurrentOf(t)) = <<>> =>
                /\ adapter.histogram[t].count = Len(ts)
                /\ adapter.histogram[t].sum = SumValues(ts)
                /\ ts # <<>> => adapter.gauge[CurrentOf(t)] = Last(ts).value
                /\ ts = <<>> => adapter.gauge[CurrentOf(t)] = 0

C5_Witness ==
    /\ Len(applied) = 2
    /\ \A i \in 1..2 : applied[i].type = "Trend" /\ applied[i].name = "http_req_duration"
    /\ applied[1].value # applied[2].value
    /\ adapter.gauge["http_req_duration_current"] = applied[2].value
    /\ adapter.histogram["http_req_duration"].count = 2

\* C6 (as claimed): every gauge the Gauge handler has a case for equals the value of
\* the last Gauge-typed sample with its name among the samples applied.
C6_GaugeLastGaugeSample ==
    \A g \in GaugeCases :
        LET gs == Select(applied, "Gauge", g)
        IN  gs # <<>> => adapter.gauge[g] = Last(gs).value

\* The samples of seq that set gauge g: the Gauge-typed ones named g and the
\* Trend-typed ones whose companion gauge is g.
SettersOf(seq, g) ==
    LET Test(s) ==
            \/ s.type = "Gauge" /\ s.name = g
            \/ s.type = "Trend" /\ s.name \in TrendCases /\ CurrentOf(s.name) = g
    IN  SelectSeq(seq, Test)

\* C6 (amended): every gauge the Gauge handler has a case for equals the value of
\* the last sample applied that sets it, which is the last Gauge-typed sample with
\* its name unless a Trend-typed sample of the paired metric was applied later.
C6_GaugeLastWriteWins ==
    \A g \in GaugeCases :
        LET ss == SettersOf(applied, g)
        IN  IF ss = <<>> THEN adapter.gauge[g] = 0 ELSE adapter.gauge[g] = Last(ss).value

C6_Witness ==
    /\ Len(applied) = 2
    /\ applied[1].type = "Gauge" /\ applied[1].name = "http_req_duration_current"
    /\ applied[1].value = 1
    /\ applied[2].type = "Trend" /\ applied[2].name = "http_req_duration"
    /\ applied[2].value = 2
    /\ adapter.gauge["http_req_duration_current"] = 2

\* C7: a call of HandleSample on a sample of unknown type, or of a name its type's
\* handler has no case for, leaves every instrument value as it was.
C7_UnknownSampleNoChange ==
    [][(Handled /\ (UnknownType(Last(applied')) \/ UnknownName(Last(applied'))))
            => Instruments(adapter') = Instruments(adapter)]_vars

C7_Witness ==
    /\ Len(applied) = 2
    /\ applied[1].type = "Gauge" /\ applied[1].name = "vus"
    /\ applied[2].type = "Counter" /\ applied[2].name = "vus"
    /\ adapter.gauge["vus"] = applied[1].value
    /\ Updated(adapter) = {"vus"}

\* C8 (as claimed): every call of HandleSample that drops its sample, for its type
\* or for its name, emits one log event.
C8_EveryDropLogged ==
    [][(Handled /\ (UnknownType(Last(applied')) \/ UnknownName(Last(applied'))))
            => adapter'.warnings = adapter.warnings + 1]_vars

\* C8 (amended): a call of HandleSample on a sample of unknown type emits one log
\* event; a call on a sample of a known type emits none, also when the handler has
\* no case for the name and drops the sample.
C8_UnknownTypeLogged ==
    [][Handled =>
            IF UnknownType(Last(applied'))
            THEN adapter'.warnings = adapter.warnings + 1
            ELSE adapter'.warnings = adapter.warnings]_vars

C8_Witness ==
    /\ Len(applied) = 2
    /\ UnknownType(applied[1])
    /\ UnknownName(applied[2])
    /\ adapter.warnings = 1

\* C10 (as claimed): every instrument a handler has updated is part of the scrape
\* response, so a scrape taken after the update shows it.
C10_ScrapeExposesCatalog ==
    exposition = Gather(adapter) => Updated(adapter) \subseteq DOMAIN exposition

(***************************************************************************)
(* Properties of the window loop (SpecSplit).                              *)
(***************************************************************************)
CeilDiv(n, d) == (n + d - 1) \div d

WindowSize(win) == win[2] - win[1]

\* C3: the windows pushed by a flush are non-empty, hold at most batchSize elements,
\* all but the last pushed one hold exactly batchSize, they follow one another from
\* index 0 without gap or overlap, and when the loop ends there are
\* ceil(bufferSize / batchSize) of them, the last ending at bufferSize (25000
\* elements give 10000, 10000, 5000; none gives no window).
C3_BatchSplitting ==
    flushPc = "loop" =>
        LET k == Len(windows)
        IN  /\ \A i \in 1..k :
                  /\ WindowSize(windows[i]) >= 1
                  /\ WindowSize(windows[i]) <= batchSize
                  /\ windows[i][1] = IF i = 1 THEN 0 ELSE windows[i - 1][2]
                  /\ windows[i][2] <= bufferSize
            /\ \A i \in 1..(k - 1) : WindowSize(windows[i]) = batchSize
            /\ lower = IF k = 0 THEN 0 ELSE windows[k][2]
            /\ ~LoopGuard(lower, bufferSize) =>
                  /\ k = CeilDiv(bufferSize, batchSize)
                  /\ lower = bufferSize
                  /\ bufferSize = 25000 =>
                        windows = << <<0, 10000>>, <<10000, 20000>>, <<20000, 25000>> >>

C3_Witness ==
    /\ flushPc = "loop"
    /\ bufferSize = 25000
    /\ ~LoopGuard(lower, bufferSize)
    /\ Len(windows) = 3
    /\ WindowSize(windows[3]) = 5000

(***************************************************************************)
(* Properties of the Output (Spec).                                        *)
(***************************************************************************)
\* How many elements of seq carry the sample id.
CountIn(seq, id) == Cardinality({i \in DOMAIN seq : seq[i].id = id})

RECURSIVE SumOver(_, _)
SumOver(f, S) ==
    IF S = {} THEN 0
    ELSE LET x == CHOOSE y \in S : TRUE IN f[x] + SumOver(f, S \ {x})

\* The part of the drained slice that the flush in progress has not pushed yet.
Unpushed == SubSeq(bufferSamples, lower + 1, Len(bufferSamples))

\* The samples of worker w that it has not passed to HandleSample yet.
Remaining(w) == SubSeq(workers[w].batch, workers[w].next, Len(workers[w].batch))

\* How many times sample id is still on its way to HandleSample: in the slice being
\* flushed, in the channel, or in a worker's batch.
InFlight(id) ==
    CountIn(Unpushed, id)
        + SumOver([i \in DOMAIN sampleChannel |-> CountIn(sampleChannel[i], id)],
                  DOMAIN sampleChannel)
        + SumOver([w \in DOMAIN workers |-> CountIn(Remaining(w), id)], DOMAIN workers)

\* Sample id has been added and has left the producer buffer.
Drained(id) == id <= produced /\ CountIn(buffer, id) = 0

\* No flush in progress, nothing in the channel, every spawned worker has exited.
Quiescent ==
    /\ flushPc = "idle"
    /\ sampleChannel = <<>>
    /\ \A w \in DOMAIN workers : workers[w].pc = "exited"

\* C1 (as claimed): once Stop has returned, workGroupCount is zero, no batch pushed
\* before is left in the channel or in a worker that has not exited, and no
\* instrument value changes any more.
C1_ShutdownDrain ==
    [][stop' = "returned" =>
            /\ workGroupCount' = 0
            /\ sampleChannel' = <<>>
            /\ \A w \in DOMAIN workers' :
                  workers'[w].pc # "exited" => workers'[w].batch = <<>>
            /\ stop = "returned" => Instruments(adapter') = Instruments(adapter)]_vars

\* C2: no sample is passed to HandleSample twice; a drained sample is, at every
\* moment, either on its way to exactly one HandleSample call or has had exactly
\* one; a sample still in the producer buffer has had none; and once the flush is
\* over, the channel empty and every spawned worker has exited, every drained
\* sample has been passed to HandleSample exactly once.
C2_ExactlyOnce ==
    \A id \in 1..MaxSamples :
        /\ handled[id] <= 1
        /\ Drained(id) => handled[id] + InFlight(id) = 1
        /\ ~Drained(id) => handled[id] = 0 /\ InFlight(id) = 0
        /\ (Quiescent /\ Drained(id)) => handled[id] = 1

C2_Witness ==
    /\ produced = MaxSamples
    /\ Quiescent
    /\ Len(workers) >= 2
    /\ \A id \in 1..MaxSamples : handled[id] = 1

\* C9 (as claimed): when Start has returned an error, no listener is bound and
\* neither the serving goroutine, the dispatch loop nor the flusher exists.
C9_NoPartialStartup ==
    start = "error" =>
        /\ ~listener
        /\ ~serving
        /\ ~dispatching
        /\ flusher = "nil"

\* The sample the producer has added as its id-th one, for the ids added so far.
SampleOf(id) == KindOf(id)

\* The sum of the values of the Counter samples named c, each weighted by times[id].
CounterTotal(c, times) ==
    SumOver([id \in 1..MaxSamples |->
                IF SampleOf(id).type = "Counter" /\ SampleOf(id).name = c
                THEN times[id] * SampleOf(id).value ELSE 0], 1..MaxSamples)

\* The number of Trend and Rate samples named h, each weighted by times[id].
ObservationTotal(h, times) ==
    SumOver([id \in 1..MaxSamples |->
                IF SampleOf(id).type \in {"Trend", "Rate"} /\ SampleOf(id).name = h
                THEN times[id] ELSE 0], 1..MaxSamples)

\* One for every sample the producer has added, zero for the others.
Added == [id \in 1..MaxSamples |-> IF id <= produced THEN 1 ELSE 0]

\* C11: while no goroutine has panicked, in every state and so for every
\* interleaving of the workers, each counter equals the sum of the values of the
\* Counter samples that workers have passed to HandleSample, and each histogram
\* has one observation per Trend or Rate sample passed; and once every added
\* sample has left the buffer, the flush is over, the channel empty and every
\* worker has exited, these are the totals over all samples added, whatever the
\* order in which the workers ran.
C11_NoLostUpdates ==
    ~adapter.panicked =>
        /\ \A c \in CounterNames : adapter.counter[c] = CounterTotal(c, handled)
        /\ \A h \in HistogramNames :
              adapter.histogram[h].count = ObservationTotal(h, handled)
        /\ (Quiescent /\ buffer = <<>>) =>
              /\ \A c \in CounterNames : adapter.counter[c] = CounterTotal(c, Added)
              /\ \A h \in HistogramNames :
                    adapter.histogram[h].count = ObservationTotal(h, Added)

\* Two workers hold different batches at the same time, each has passed a counted
\* request to HandleSample, and the counter holds both values.
C11_Witness ==
    /\ ~Crashed
    /\ \E v, w \in DOMAIN workers :
          /\ v # w
          /\ \A x \in {v, w} :
                /\ workers[x].pc = "range"
                /\ workers[x].next > Len(workers[x].batch)
                /\ \E i \in DOMAIN workers[x].batch :
                      /\ workers[x].batch[i].type = "Counter"
                      /\ workers[x].batch[i].value > 0
    /\ adapter.counter["http_reqs"] = 3


\* C12: no step lowers a counter: after any sequence of HandleSample calls, on
\* samples of any type, name and value, every counter is at least what it was in
\* the state before the call, and so in every earlier state.
C12_CountersMonotonic ==
    [][\A c \in CounterNames : adapter'.counter[c] >= adapter.counter[c]]_vars

\* A counter has been raised and a negative Counter sample for it has been
\* handled after that: the counter still holds what it held.
C12_Witness ==
    /\ Len(applied) = 2
    /\ \E c \in CounterCases :
          /\ applied[1] = [type |-> "Counter", name |-> c, value |-> 2]
          /\ applied[2] = [type |-> "Counter", name |-> c, value |-> -1]
          /\ adapter.counter[c] = 2

\* Worker w holds a received batch that it has not passed to HandleSample completely.
Unprocessed(w) == workers[w].next <= Len(workers[w].batch)

\* C13 (as claimed): the wait group and the in-flight counter are raised before
\* the worker of a received batch runs, so whenever a batch has been received and
\* not yet processed completely, both are above zero.
C13_RegisteredBeforeSpawned ==
    (\E w \in DOMAIN workers : Unprocessed(w)) => wg > 0 /\ workGroupCount > 0

\* C14: Stop goes past o.flusher.Stop() only when the flusher has stopped; once it
\* has stopped no flush starts; the channel is closed only when the flusher has
\* stopped with no flush in progress, every window of the last drained slice
\* pushed and the producer buffer empty; and no push ever meets a closed channel.
C14_StopOrdering ==
    [][/\ stop' \notin {"idle", "flusherStop"} => flusher' = "stopped"
       /\ flusher = "stopped" => flusher' = "stopped" /\ flushPc' = "idle"
       /\ closed' => /\ flusher' = "stopped"
                     /\ flushPc' = "idle"
                     /\ Unpushed' = <<>>
                     /\ buffer' = <<>>
       /\ flushPc' # "panicked"]_vars

\* Stop has closed the channel while a batch that a flush pushed is still in it.
C14_Witness ==
    /\ stop = "returned"
    /\ closed
    /\ flusher = "stopped"
    /\ produced = MaxSamples
    /\ sampleChannel # <<>>

\* The flush in progress has a window left to push.
Pending == flushPc = "loop" /\ LoopGuard(lower, bufferSize)

\* C15: the channel never holds more than its capacity; while it is full, a flush
\* with a window left to push keeps its place and its slice (it waits, nothing is
\* dropped); as soon as the channel has room again the push can go on; every push
\* appends the next window to the channel; and the flush ends only when no window
\* of the drained slice is left.
C15_Backpressure ==
    [][/\ Len(sampleChannel') <= PipeChanCap
       /\ (Pending /\ Len(sampleChannel) = PipeChanCap) =>
              /\ Pending'
              /\ Unpushed' = Unpushed
       /\ (Pending /\ Len(sampleChannel) < PipeChanCap /\ ~Crashed) => ENABLED FlushPush
       /\ (Pending /\ Unpushed' # Unpushed) =>
              /\ sampleChannel' = Append(sampleChannel, Window(bufferSamples, lower, upper))
              /\ Unpushed = Window(bufferSamples, lower, upper) \o Unpushed'
       /\ (flushPc = "loop" /\ flushPc' = "idle") => Unpushed = <<>>]_vars

\* The flush has pushed a second window, which fills the channel, after the
\* dispatch loop received the first one and made room for it.
C15_Witness ==
    /\ flushPc = "loop"
    /\ Len(windows) = 2
    /\ ~LoopGuard(lower, bufferSize)
    /\ Len(sampleChannel) = PipeChanCap
    /\ Last(sampleChannel) = Window(bufferSamples, windows[2][1], windows[2][2])
    /\ \E w \in DOMAIN workers :
          workers[w].batch = Window(bufferSamples, windows[1][1], windows[1][2])

\* The workers that hold sample id in their batch.
HoldersOf(id) == {w \in DOMAIN workers : CountIn(workers[w].batch, id) > 0}

\* C16: a sample is in the batch of at most one worker, and the samples of a
\* worker's batch that have been passed to HandleSample are at every moment the
\* ones before position next, each passed once: sample i of a batch is applied
\* before sample j whenever i < j, and by the worker that holds the batch.
C16_InBatchOrder ==
    /\ \A id \in 1..MaxSamples : Cardinality(HoldersOf(id)) <= 1
    /\ \A w \in DOMAIN workers :
          \A i \in DOMAIN workers[w].batch :
              handled[workers[w].batch[i].id] = IF i < workers[w].next THEN 1 ELSE 0

\* A worker is between the first and the second sample of its batch while the
\* worker of a batch received later has already handled all of its batch.
C16_Witness ==
    \E v, w \in DOMAIN workers :
        /\ v < w
        /\ Len(workers[v].batch) = 2
        /\ workers[v].next = 2
        /\ workers[w].batch # <<>>
        /\ workers[w].next > Len(workers[w].batch)

\* C17 (as claimed): whatever sample a worker has passed to HandleSample, the call
\* returns and the worker can go on: a worker inside its loop can always handle
\* its next sample or, after the last one, run its deferred decrement (Stop's
\* own panic in o.wg.Wait() set aside).
C17_BadSampleNeverAborts ==
    \A w \in DOMAIN workers :
        (workers[w].pc = "range" /\ stop # "panicked") =>
            ENABLED (WorkerHandle(w) \/ WorkerUncount(w))

\* C18 (as claimed): under fair scheduling of the flusher, the dispatch loop, the
\* workers and Stop itself, a Stop that has been called eventually returns (runs
\* in which a worker has panicked on a sample set aside).
C18_StopTerminates ==
    (stop = "flusherStop") ~> (stop = "returned" \/ adapter.panicked)

\* C19 (as claimed, for the producer buffer): a sample that is in the producer
\* buffer while Stop is in o.flusher.Stop(), and so was there when Stop was called
\* (the producer adds nothing after the call), has been passed to HandleSample
\* whenever Stop has returned.
C19_NothingLostAtShutdown ==
    \A id \in 1..MaxSamples :
        []((stop = "flusherStop" /\ CountIn(buffer, id) > 0)
              => [](stop = "returned" => handled[id] = 1))

\* C20 (as claimed): once the channel is closed and every batch pushed to it has
\* been received, no step spawns a further worker.
C20_DispatchQuiescent ==
    [][(closed /\ sampleChannel = <<>>) => Len(workers') = Len(workers)]_vars

\* The workers whose statement to run next is one of pcs.
WorkersAt(pcs) == {w \in DOMAIN workers : workers[w].pc \in pcs}

\* C21: workGroupCount is never negative and is the number of workers that have
\* made their increment of it and not yet their decrement; it equals the wait
\* group's counter whenever no worker stands between o.wg.Add(1) and the
\* increment or between the decrement and o.wg.Done(); and it is zero whenever
\* every spawned worker has exited.
C21_InFlightCounter ==
    /\ workGroupCount >= 0
    /\ workGroupCount = Cardinality(WorkersAt({"range"}))
    /\ WorkersAt({"count", "done"}) = {} => workGroupCount = wg
    /\ WorkersAt({"add", "count", "range", "done"}) = {} => workGroupCount = 0

\* Two workers are inside their loops at once, none is between its increments or
\* its decrements, and both counters stand at two.
C21_Witness ==
    /\ Cardinality(WorkersAt({"range"})) = 2
    /\ WorkersAt({"count", "done"}) = {}
    /\ workGroupCount = 2
    /\ wg = 2

\* The instruments, as <<kind, name>>, whose values differ between a and b.
Touched(a, b) ==
    {<<"counter", n>> : n \in {c \in CounterNames : a.counter[c] # b.counter[c]}}
        \cup {<<"gauge", n>> : n \in {g \in GaugeNames : a.gauge[g] # b.gauge[g]}}
        \cup {<<"histogram", n>> :
                  n \in {h \in HistogramNames : a.histogram[h] # b.histogram[h]}}

\* The instruments tied to the (type, name) pair of a recognised sample.
Tied(sample) ==
    CASE sample.type = "Counter" -> {<<"counter", sample.name>>}
      [] sample.type = "Gauge" -> {<<"gauge", sample.name>>}
      [] sample.type = "Rate" -> {<<"histogram", sample.name>>}
      [] sample.type = "Trend" ->
            {<<"histogram", sample.name>>, <<"gauge", CurrentOf(sample.name)>>}
      [] OTHER -> {}

\* C22: a call of HandleSample on a sample of recognised type and name changes no
\* instrument but the ones tied to the pair, and does update those: the counter
\* grows by the value (a negative value panics and changes nothing), the gauge
\* holds the value, the histogram has one more observation, and for a Trend
\* sample both the histogram and the '_current' gauge are updated.
C22_RecognisedFrame ==
    [][(Handled /\ ~UnknownType(Last(applied')) /\ ~UnknownName(Last(applied'))) =>
          LET sample == Last(applied')
          IN  /\ Touched(adapter, adapter') \subseteq Tied(sample)
              /\ \A i \in Tied(sample) :
                    CASE i[1] = "counter" ->
                            IF sample.value < 0
                            THEN adapter'.counter[i[2]] = adapter.counter[i[2]]
                            ELSE adapter'.counter[i[2]] =
                                    adapter.counter[i[2]] + sample.value
                      [] i[1] = "gauge" -> adapter'.gauge[i[2]] = sample.value
                      [] i[1] = "histogram" ->
                            adapter'.histogram[i[2]].count =
                                adapter.histogram[i[2]].count + 1]_vars

\* A request duration has been handled and then a Gauge sample for its
\* '_current' gauge: the second call set the gauge and left the histogram, with
\* its one observation, alone.
C22_Witness ==
    /\ applied = <<[type |-> "Trend", name |-> "http_req_duration", value |-> 2],
                   [type |-> "Gauge", name |-> "http_req_duration_current", value |-> 1]>>
    /\ adapter.gauge["http_req_duration_current"] = 1
    /\ adapter.histogram["http_req_duration"] = [count |-> 1, sum |-> 2]
    /\ Updated(adapter) = {"http_req_duration", "http_req_duration_current"}

=============================================================================
